---------------------------- MODULE Spec2Model ----------------------------
(***************************************************************************)
(* A model of drivers/staging/android/lowmemorykiller.c, built with        *)
(* SEC_ADJUST_LMK defined (line 42).                                       *)
(*                                                                         *)
(* State: the two module-parameter arrays and their element counts, the    *)
(* death-pending timeout, the jiffies counter, the task list walked by     *)
(* for_each_process, and the frame of the most recent lowmem_shrink call   *)
(* (its arguments, the page counters it sampled, and what it returned).    *)
(*                                                                         *)
(* Arrays are 0-indexed functions as in C.  A task group is one thread,    *)
(* so find_lock_task_mm(tsk) is tsk itself when tsk has an mm and NULL     *)
(* otherwise.  jiffies is an unsigned long; its width is scaled from       *)
(* BITS_PER_LONG down to JiffiesBits and all arithmetic on it wraps.       *)
(***************************************************************************)
EXTENDS Integers, Sequences, FiniteSets, TLC

VARIABLES
    lowmem_adj,                   \* short lowmem_adj[6]
    lowmem_adj_size,              \* int lowmem_adj_size
    lowmem_minfree,               \* int lowmem_minfree[6]
    lowmem_minfree_size,          \* int lowmem_minfree_size
    lowmem_deathpending_timeout,  \* unsigned long
    jiffies,                      \* the kernel tick counter
    tasks,                        \* the task list, in for_each_process order
    killed_at,                    \* history: jiffies of the latest SIGKILL sent to each task, -1 if none
    returned,                     \* TRUE in the state right after lowmem_shrink returns
    call,                         \* frame of that invocation
    thr,                          \* the invocations under way on each CPU, step by step
    task_lock                     \* holder of each task's alloc_lock, NULL when free

vars == <<lowmem_adj, lowmem_adj_size, lowmem_minfree, lowmem_minfree_size,
          lowmem_deathpending_timeout, jiffies, tasks, killed_at, returned, call,
          thr, task_lock>>

-----------------------------------------------------------------------------
(* Constants of the program and of the kernel headers it includes.         *)

\* <linux/oom.h>: the largest legacy oom_adj value.
OOM_ADJUST_MAX == 15

\* <linux/oom.h>: the largest oom_score_adj value.
OOM_SCORE_ADJ_MAX == 1000

\* ARRAY_SIZE(lowmem_adj): both parameter arrays are declared with 6 slots.
LOWMEM_ARRAY_SIZE == 6

\* The NULL task pointer; tasks are numbered from 1.
NULL == 0

-----------------------------------------------------------------------------
(* Bounds of the model.                                                    *)

\* Number of entries of the task list.
NTasks == 2

\* Ticks of jiffies that the model lets elapse.
MaxTicks == 3

\* Ticks per second: the grace period armed by a kill (jiffies + HZ).
HZ == 1

\* Width in bits of the scaled unsigned long.
JiffiesBits == 4

JiffiesMod == 2 ^ JiffiesBits

\* jiffies when the module is initialised: one grace period before the
\* counter wraps, as the kernel boots a little before the wrap.
InitialJiffies == JiffiesMod - HZ

Pids == 1 .. NTasks

\* What a task can look like when the module is initialised: user tasks of
\* a low and a high score, small, large and without resident pages, and a
\* kernel thread, which may own an mm for a while (use_mm).
UserTask(oom_score_adj, rss) ==
    [kthread |-> FALSE, mm |-> TRUE, memdie |-> FALSE,
     oom_score_adj |-> oom_score_adj, rss |-> rss]

KernelThread(oom_score_adj, rss) ==
    [kthread |-> TRUE, mm |-> TRUE, memdie |-> FALSE,
     oom_score_adj |-> oom_score_adj, rss |-> rss]

\* A kernel thread that carries TIF_MEMDIE, a flag the kernel's
\* out-of-memory path also sets on the task that runs it.
FlaggedKernelThread(oom_score_adj, rss) ==
    [KernelThread(oom_score_adj, rss) EXCEPT !.memdie = TRUE]

TaskKinds ==
    { UserTask(12, 100), UserTask(12, 500), UserTask(1, 500), UserTask(12, 0),
      KernelThread(12, 500), FlaggedKernelThread(12, 500) }

\* Values of the page counters a call may sample (global_page_state).
VmSamples ==
    [NR_FREE_PAGES : {0, 3000, 16000},
     NR_INACTIVE_FILE : {40},
     NR_ACTIVE_FILE : {32, 344},
     NR_ACTIVE_ANON : {1000},
     NR_INACTIVE_ANON : {200}]

\* Values of nr_to_scan passed by the shrinker framework.
ScanRequests == {-1, 0, 1}

\* Lists written to /sys/module/lowmemorykiller/parameters/adj.
AdjWrites == { <<6, 16>> }

\* Lists written to /sys/module/lowmemorykiller/parameters/minfree.
MinfreeWrites == { <<4096>> }

-----------------------------------------------------------------------------
(* Time.                                                                   *)

\* An unsigned long reinterpreted as a long.
AsLong(x) == IF x >= JiffiesMod \div 2 THEN x - JiffiesMod ELSE x

\* Unsigned subtraction a - b.
USub(a, b) == (a - b + JiffiesMod) % JiffiesMod

\* A plausible slip: the strict comparison time_before.
time_before(a, b) == AsLong(USub(b, a)) > 0

\* time_before_eq(a, b): ((long)(b) - (long)(a) >= 0).
time_before_eq(a, b) == AsLong(USub(b, a)) >= 0

\* Ticks elapsed since the module was initialised.
TicksSinceInit == USub(jiffies, InitialJiffies)

-----------------------------------------------------------------------------
(* The threshold step, lines 81-111.                                       *)

\* A plausible slip: the clamp to lowmem_adj_size left out.
ArraySizeWithoutAdjClamp ==
    IF lowmem_minfree_size < LOWMEM_ARRAY_SIZE
    THEN lowmem_minfree_size ELSE LOWMEM_ARRAY_SIZE

\* array_size after the two clamps of lines 92-95.
EffectiveArraySize ==
    LET a0 == LOWMEM_ARRAY_SIZE
        a1 == IF lowmem_adj_size < a0 THEN lowmem_adj_size ELSE a0
    IN  IF lowmem_minfree_size < a1 THEN lowmem_minfree_size ELSE a1

\* A plausible slip: the non-strict comparison.
BelowMinfreeOrEqual(other_free, other_file, minfree) ==
    (other_free + other_file) <= minfree

\* The SEC_ADJUST_LMK test of line 98.
BelowMinfree(other_free, other_file, minfree) ==
    (other_free + other_file) < minfree

\* A plausible slip: the loop without its break, so that the last matching
\* entry decides.
RECURSIVE ThresholdLoopWithoutBreak(_, _, _, _)
ThresholdLoopWithoutBreak(i, array_size, other_free, other_file) ==
    IF i >= array_size
    THEN OOM_SCORE_ADJ_MAX + 1
    ELSE LET later == ThresholdLoopWithoutBreak(i + 1, array_size,
                                                other_free, other_file)
         IN  IF later # OOM_SCORE_ADJ_MAX + 1 THEN later
             ELSE IF BelowMinfree(other_free, other_file, lowmem_minfree[i])
                  THEN lowmem_adj[i]
                  ELSE OOM_SCORE_ADJ_MAX + 1

\* The for loop of lines 96-107 from index i on; min_score_adj keeps its
\* initial value OOM_SCORE_ADJ_MAX + 1 (line 78) when no entry matches.
RECURSIVE ThresholdLoop(_, _, _, _)
ThresholdLoop(i, array_size, other_free, other_file) ==
    IF i >= array_size
    THEN OOM_SCORE_ADJ_MAX + 1
    ELSE IF BelowMinfree(other_free, other_file, lowmem_minfree[i])
         THEN lowmem_adj[i]
         ELSE ThresholdLoop(i + 1, array_size, other_free, other_file)

\* other_file as sampled at lines 84-85.
OtherFile(vm) == vm.NR_INACTIVE_FILE + vm.NR_ACTIVE_FILE

\* min_score_adj after the loop.
MinScoreAdj(vm) ==
    ThresholdLoop(0, EffectiveArraySize, vm.NR_FREE_PAGES, OtherFile(vm))

\* The early return of lines 109-110.
NoThresholdReturn(min_score_adj) == min_score_adj = OOM_ADJUST_MAX + 1

\* A plausible slip: one of the four counters left out.
RemWithoutInactiveAnon(vm) ==
    vm.NR_ACTIVE_ANON + vm.NR_ACTIVE_FILE + vm.NR_INACTIVE_FILE

\* rem as sampled at lines 116-119.
Rem(vm) ==
    vm.NR_ACTIVE_ANON + vm.NR_ACTIVE_FILE +
    vm.NR_INACTIVE_ANON + vm.NR_INACTIVE_FILE

\* A plausible slip: only a negative request counts as a query.
QueryOnlyNegative(nr_to_scan) == nr_to_scan < 0

\* The test of line 121.
QueryOnly(nr_to_scan) == nr_to_scan <= 0

-----------------------------------------------------------------------------
(* The scan, lines 130-171.                                                *)

\* A plausible slip: the kernel-thread test left out.
NoKthreadSkip(tsk) == FALSE

\* Line 137.
SkipKthread(tsk) == tsk.kthread

\* Line 140: the task whose mm gets locked, NULL when the task has none.
find_lock_task_mm(i) == IF tasks[i].mm THEN i ELSE NULL

\* Lines 144-145.
DeathPending(p, now) ==
    /\ tasks[p].memdie
    /\ time_before_eq(now, lowmem_deathpending_timeout)

\* A plausible slip: a candidate that ties on score does not replace.
KeepSelectedOnTie(selected_oom_score_adj, selected_tasksize, oom_score_adj, tasksize) ==
    oom_score_adj <= selected_oom_score_adj

\* A plausible slip: the score comparison turned around.
KeepSelectedReversed(selected_oom_score_adj, selected_tasksize, oom_score_adj, tasksize) ==
    oom_score_adj > selected_oom_score_adj

\* Lines 160-164, taken when a task is already selected: TRUE when the
\* loop continues without replacing it.
KeepSelected(selected_oom_score_adj, selected_tasksize, oom_score_adj, tasksize) ==
    \/ oom_score_adj < selected_oom_score_adj
    \/ /\ oom_score_adj < selected_oom_score_adj
       /\ tasksize <= selected_tasksize

\* The locals of the scan before the loop (lines 74, 79, 130).
ScanStart(min_score_adj) ==
    [selected |-> NULL, selected_tasksize |-> 0,
     selected_oom_score_adj |-> min_score_adj, aborted |-> FALSE]

\* A plausible slip: a pending death only skips that one task instead of
\* abandoning the scan.
ScanBodySkippingPending(st, i, min_score_adj, now) ==
    LET tsk == tasks[i]
        p == find_lock_task_mm(i)
    IN  IF SkipKthread(tsk) \/ p = NULL THEN st
        ELSE IF DeathPending(p, now) THEN st
        ELSE IF tasks[p].oom_score_adj < min_score_adj \/ tasks[p].rss <= 0 THEN st
        ELSE IF /\ st.selected # NULL
                /\ KeepSelected(st.selected_oom_score_adj, st.selected_tasksize,
                                tasks[p].oom_score_adj, tasks[p].rss)
             THEN st
        ELSE [st EXCEPT !.selected = p,
                        !.selected_tasksize = tasks[p].rss,
                        !.selected_oom_score_adj = tasks[p].oom_score_adj]

\* One iteration of for_each_process, lines 133-171, on task i.
ScanBody(st, i, min_score_adj, now) ==
    LET tsk == tasks[i]
        p == find_lock_task_mm(i)
    IN  IF SkipKthread(tsk) THEN st
        ELSE IF p = NULL THEN st
        ELSE IF DeathPending(p, now) THEN [st EXCEPT !.aborted = TRUE]
        ELSE LET oom_score_adj == tasks[p].oom_score_adj
                 tasksize == tasks[p].rss
             IN  IF oom_score_adj < min_score_adj THEN st
                 ELSE IF tasksize <= 0 THEN st
                 ELSE IF /\ st.selected # NULL
                         /\ KeepSelected(st.selected_oom_score_adj,
                                         st.selected_tasksize,
                                         oom_score_adj, tasksize)
                      THEN st
                 ELSE [st EXCEPT !.selected = p,
                                 !.selected_tasksize = tasksize,
                                 !.selected_oom_score_adj = oom_score_adj]

\* The loop from task i on; the return of line 148 leaves the loop.
RECURSIVE ScanLoop(_, _, _, _)
ScanLoop(i, st, min_score_adj, now) ==
    IF i > NTasks \/ st.aborted
    THEN st
    ELSE ScanLoop(i + 1, ScanBody(st, i, min_score_adj, now), min_score_adj, now)

-----------------------------------------------------------------------------
(* The CPUs that may run the shrinker callback at the same time.           *)

Threads == {1, 2}

\* An invocation that is not under way.  sigkill, sigkill_at and overlapped
\* are history: the task the invocation sent SIGKILL to and the jiffies of
\* that, and whether another invocation wrote the timeout or a TIF_MEMDIE
\* flag while this one was between its entry and its own kill.
ThreadIdle ==
    [pc |-> "idle", min_score_adj |-> 0, rem |-> 0, i |-> 1,
     st |-> ScanStart(0), p |-> NULL, rcu |-> FALSE, ret |-> 0,
     sigkill |-> NULL, sigkill_at |-> -1, overlapped |-> FALSE]

-----------------------------------------------------------------------------
(* lowmem_shrink, lines 71-191.                                            *)

\* The frame of an invocation that touched nothing.
Frame(nr_to_scan, vm, min_score_adj, ret) ==
    [nr_to_scan |-> nr_to_scan, vm |-> vm, now |-> jiffies,
     min_score_adj |-> min_score_adj, ret |-> ret,
     sigkill |-> NULL, selected_tasksize |-> 0, compact |-> FALSE,
     timeout0 |-> lowmem_deathpending_timeout,
     memdie0 |-> {p \in Pids : tasks[p].memdie},
     killed_at0 |-> killed_at]

\* The frame before any call and after the caller moved on.
NoFrame ==
    [nr_to_scan |-> 0,
     vm |-> [NR_FREE_PAGES |-> 0, NR_INACTIVE_FILE |-> 0, NR_ACTIVE_FILE |-> 0,
             NR_ACTIVE_ANON |-> 0, NR_INACTIVE_ANON |-> 0],
     now |-> 0, min_score_adj |-> 0, ret |-> 0,
     sigkill |-> NULL, selected_tasksize |-> 0, compact |-> FALSE,
     timeout0 |-> 0, memdie0 |-> {}, killed_at0 |-> [p \in Pids |-> -1]]

\* A plausible slip: the timeout is set to the current jiffies, without the
\* second of grace.
ArmDeadlineWithoutGrace(now) == now

\* Line 176: lowmem_deathpending_timeout = jiffies + HZ, in the unsigned
\* word of jiffies.
ArmDeadline(now) == (now + HZ) % JiffiesMod

lowmem_shrink(nr_to_scan, vm) ==
    LET min_score_adj == MinScoreAdj(vm)
        rem == Rem(vm)
        st == ScanLoop(1, ScanStart(min_score_adj), min_score_adj, jiffies)
        quiet(ret) ==
            /\ call' = Frame(nr_to_scan, vm, min_score_adj, ret)
            /\ UNCHANGED <<lowmem_deathpending_timeout, tasks, killed_at>>
    IN  /\ ~returned
        /\ returned' = TRUE
        /\ UNCHANGED <<lowmem_adj, lowmem_adj_size, lowmem_minfree,
                       lowmem_minfree_size, jiffies, thr, task_lock>>
        /\ IF NoThresholdReturn(min_score_adj) THEN quiet(0)
           ELSE IF QueryOnly(nr_to_scan) THEN quiet(rem)
           ELSE IF st.aborted THEN quiet(0)
           ELSE IF st.selected = NULL THEN quiet(-1)
           ELSE /\ lowmem_deathpending_timeout' = ArmDeadline(jiffies)
                /\ tasks' = [tasks EXCEPT ![st.selected].memdie = TRUE]
                /\ killed_at' = [killed_at EXCEPT ![st.selected] = jiffies]
                /\ call' = [Frame(nr_to_scan, vm, min_score_adj,
                                  rem - st.selected_tasksize)
                              EXCEPT !.sigkill = st.selected,
                                     !.selected_tasksize = st.selected_tasksize,
                                     !.compact = TRUE]

-----------------------------------------------------------------------------
(* The environment.                                                        *)

\* The caller has consumed the return value.
Forget == /\ returned' = FALSE
          /\ call' = NoFrame
          /\ UNCHANGED <<thr, task_lock>>

\* The shrinker framework takes the return value; the next invocation
\* starts from there (one invocation at a time).
Return ==
    /\ returned
    /\ Forget
    /\ UNCHANGED <<lowmem_adj, lowmem_adj_size, lowmem_minfree,
                   lowmem_minfree_size, lowmem_deathpending_timeout,
                   jiffies, tasks, killed_at>>

\* A timer tick.
Tick ==
    /\ TicksSinceInit < MaxTicks
    /\ jiffies' = (jiffies + 1) % JiffiesMod
    /\ Forget
    /\ UNCHANGED <<lowmem_adj, lowmem_adj_size, lowmem_minfree,
                   lowmem_minfree_size, lowmem_deathpending_timeout,
                   tasks, killed_at>>

\* A write to the adj parameter (line 210): the listed elements are stored
\* from index 0 and the element count becomes the length of the list.
WriteAdj(vals) ==
    /\ lowmem_adj' = [i \in 0 .. LOWMEM_ARRAY_SIZE - 1 |->
                        IF i < Len(vals) THEN vals[i + 1] ELSE lowmem_adj[i]]
    /\ lowmem_adj_size' = Len(vals)
    /\ Forget
    /\ UNCHANGED <<lowmem_minfree, lowmem_minfree_size,
                   lowmem_deathpending_timeout, jiffies, tasks, killed_at>>

\* A write to the minfree parameter (line 211).
WriteMinfree(vals) ==
    /\ lowmem_minfree' = [i \in 0 .. LOWMEM_ARRAY_SIZE - 1 |->
                            IF i < Len(vals) THEN vals[i + 1] ELSE lowmem_minfree[i]]
    /\ lowmem_minfree_size' = Len(vals)
    /\ Forget
    /\ UNCHANGED <<lowmem_adj, lowmem_adj_size,
                   lowmem_deathpending_timeout, jiffies, tasks, killed_at>>

\* A task gives up its address space, and with it its resident pages, on
\* its way out, under its own lock; it stays on the task list, with its
\* flags, until it is reaped.
TaskExit(p) ==
    /\ tasks[p].mm
    /\ task_lock[p] = NULL
    /\ tasks' = [tasks EXCEPT ![p].mm = FALSE, ![p].rss = 0]
    /\ Forget
    /\ UNCHANGED <<lowmem_adj, lowmem_adj_size, lowmem_minfree,
                   lowmem_minfree_size, lowmem_deathpending_timeout,
                   jiffies, killed_at>>

-----------------------------------------------------------------------------
Init ==
    /\ lowmem_adj = [i \in 0 .. LOWMEM_ARRAY_SIZE - 1 |->
                        CASE i = 0 -> 0 [] i = 1 -> 1 [] i = 2 -> 6
                          [] i = 3 -> 12 [] OTHER -> 0]
    /\ lowmem_adj_size = 4
    /\ lowmem_minfree = [i \in 0 .. LOWMEM_ARRAY_SIZE - 1 |->
                        CASE i = 0 -> 3 * 1024 [] i = 1 -> 4 * 1024
                          [] i = 2 -> 10 * 1024 [] i = 3 -> 16 * 1024
                          [] OTHER -> 0]
    /\ lowmem_minfree_size = 4
    /\ lowmem_deathpending_timeout = 0
    /\ jiffies = InitialJiffies
    /\ tasks \in [Pids -> TaskKinds]
    /\ killed_at = [p \in Pids |-> -1]
    /\ returned = FALSE
    /\ call = NoFrame
    /\ thr = [t \in Threads |-> ThreadIdle]
    /\ task_lock = [p \in Pids |-> NULL]

Next ==
    \/ \E nr_to_scan \in ScanRequests, vm \in VmSamples : lowmem_shrink(nr_to_scan, vm)
    \/ Return
    \/ Tick
    \/ \E vals \in AdjWrites : WriteAdj(vals)
    \/ \E vals \in MinfreeWrites : WriteMinfree(vals)
    \/ \E p \in Pids : TaskExit(p)

Spec == Init /\ [][Next]_vars

-----------------------------------------------------------------------------
(* Properties.  They are stated on the state right after an invocation     *)
(* returns, from the frame of the call and the tables and task list it     *)
(* ran on (a call changes of a task only its TIF_MEMDIE flag).             *)

\* free + file-cache pages of the sample the call took.
FreePlusCache == call.vm.NR_FREE_PAGES + call.vm.NR_INACTIVE_FILE + call.vm.NR_ACTIVE_FILE

\* The four LRU counters of the sample the call took.
TotalReclaimable ==
    call.vm.NR_ACTIVE_ANON + call.vm.NR_INACTIVE_ANON +
    call.vm.NR_ACTIVE_FILE + call.vm.NR_INACTIVE_FILE

\* Indices of the effective table whose minfree exceeds free + cache.
CrossedEntries ==
    {i \in 0 .. EffectiveArraySize - 1 : FreePlusCache < lowmem_minfree[i]}

\* The effective table is ascending in both fields.
AscendingTable ==
    \A i, j \in 0 .. EffectiveArraySize - 1 :
        i <= j => /\ lowmem_minfree[i] <= lowmem_minfree[j]
                  /\ lowmem_adj[i] <= lowmem_adj[j]

\* Task p is an eligible entry for the call.
Eligible(p) ==
    /\ ~tasks[p].kthread
    /\ tasks[p].oom_score_adj >= call.min_score_adj
    /\ tasks[p].rss > 0

\* The call reached a user task holding an mm that was flagged TIF_MEMDIE
\* while jiffies had not passed the timeout.
MetPendingDeath ==
    \E p \in Pids :
        /\ ~tasks[p].kthread
        /\ tasks[p].mm
        /\ p \in call.memdie0
        /\ AsLong(USub(call.timeout0, call.now)) >= 0

\* The call issued a kill.
Killed == returned /\ call.sigkill # NULL

\* Task v was sent SIGKILL by an earlier call at a tick T with
\* T < now <= T + HZ, and is still flagged.
KilledWithinGrace(v) ==
    /\ call.killed_at0[v] # -1
    /\ USub(call.now, call.killed_at0[v]) \in 1 .. HZ
    /\ v \in call.memdie0

\* C1 as stated: after a kill at tick T, every scanning call at a tick t
\* with T < t <= T + HZ whose task list still holds the victim, flagged
\* pending-death, returns 0 and issues no kill.
C1_AbortWhileVictimListed ==
    (returned /\ call.nr_to_scan > 0) =>
        \A v \in Pids :
            KilledWithinGrace(v) => (call.ret = 0 /\ call.sigkill = NULL)

\* C1, amended: after a kill at tick T, every scanning call at a tick t
\* with T < t <= T + HZ whose task list still holds the victim, flagged
\* pending-death and still owning an address space, returns 0 and issues
\* no kill.
C1_AbortWhileVictimHoldsMm ==
    (returned /\ call.nr_to_scan > 0) =>
        \A v \in Pids :
            (KilledWithinGrace(v) /\ tasks[v].mm) =>
                (call.ret = 0 /\ call.sigkill = NULL)

\* C1 witness: a scanning call under pressure, at the last tick of the
\* grace period of a victim that still holds its mm, with another eligible
\* task on the list, returns 0.
C1_Witness ==
    /\ returned
    /\ call.nr_to_scan > 0
    /\ CrossedEntries # {}
    /\ call.ret = 0
    /\ \E v, q \in Pids :
        /\ v # q
        /\ KilledWithinGrace(v)
        /\ USub(call.now, call.killed_at0[v]) = HZ
        /\ tasks[v].mm
        /\ Eligible(q)
        /\ q \notin call.memdie0

\* C2 as stated: when no entry of the effective table is crossed, the call
\* returns 0 whatever nr_to_scan is, and issues no kill.
C2_NoThresholdReturnsZero ==
    (returned /\ CrossedEntries = {}) =>
        (call.ret = 0 /\ call.sigkill = NULL)

\* C3: a call with nr_to_scan = 0 has no side effect: no SIGKILL, no task
\* newly flagged TIF_MEMDIE, the timeout unchanged, no compaction.
C3_QueryHasNoSideEffect ==
    (returned /\ call.nr_to_scan = 0) =>
        /\ call.sigkill = NULL
        /\ ~call.compact
        /\ lowmem_deathpending_timeout = call.timeout0
        /\ {p \in Pids : tasks[p].memdie} = call.memdie0
        /\ killed_at = call.killed_at0

\* C3 witness: a query under pressure, with an eligible task listed and no
\* pending death in the way, returns the reclaimable total and kills nobody.
C3_Witness ==
    /\ returned
    /\ call.nr_to_scan = 0
    /\ CrossedEntries # {}
    /\ ~MetPendingDeath
    /\ \E p \in Pids : Eligible(p)
    /\ call.ret = TotalReclaimable
    /\ call.sigkill = NULL

\* The eligible tasks of the highest score.
TopEligible ==
    {p \in Pids : Eligible(p) /\
        \A q \in Pids : Eligible(q) => tasks[q].oom_score_adj <= tasks[p].oom_score_adj}

\* C4 as stated: among eligible tasks tied on the highest score, the one
\* met first in list order is the victim.
C4_FirstOfTiedWins ==
    Killed => \A p \in TopEligible : call.sigkill <= p

\* C4, amended: among eligible tasks tied on the highest score, the one
\* met last in list order is the victim, whatever their resident sizes.
C4_LastOfTiedWins ==
    Killed => (call.sigkill \in TopEligible /\
               \A p \in TopEligible : p <= call.sigkill)

\* C4 witness: two eligible tasks tie on the highest score, the earlier one
\* is the larger, and the later one is killed.
C4_Witness ==
    /\ Killed
    /\ \E p \in TopEligible :
        /\ p < call.sigkill
        /\ tasks[p].oom_score_adj = tasks[call.sigkill].oom_score_adj
        /\ tasks[p].rss > tasks[call.sigkill].rss

\* C5: a scanning call that passes the threshold step, meets no pending
\* death and has an eligible task listed kills a task, and whenever a task
\* is killed it is eligible and no eligible task has a higher score.
C5_VictimHasHighestScore ==
    /\ (/\ returned
        /\ call.nr_to_scan > 0
        /\ call.min_score_adj # OOM_ADJUST_MAX + 1
        /\ ~MetPendingDeath
        /\ \E p \in Pids : Eligible(p)) => call.sigkill # NULL
    /\ Killed =>
        /\ Eligible(call.sigkill)
        /\ \A q \in Pids :
            Eligible(q) => tasks[q].oom_score_adj <= tasks[call.sigkill].oom_score_adj

\* C5 witness: eligible tasks of a lower and of a higher score are listed,
\* the higher one first, and the higher one is killed.
C5_Witness ==
    /\ Killed
    /\ \E q \in Pids :
        /\ Eligible(q)
        /\ call.sigkill < q
        /\ tasks[q].oom_score_adj < tasks[call.sigkill].oom_score_adj

\* C6 as stated: a scanning call whose sample crosses a threshold, on a
\* task list where every score is below the chosen minimum, returns -1 and
\* issues no kill.
C6_NoVictimReturnsMinusOne ==
    (/\ returned
     /\ call.nr_to_scan > 0
     /\ CrossedEntries # {}
     /\ \A p \in Pids : tasks[p].oom_score_adj < call.min_score_adj) =>
        (call.ret = -1 /\ call.sigkill = NULL)

\* C7: whenever a call issues a kill, it returns the sum of the four LRU
\* counters it sampled minus the resident size it recorded for the victim.
C7_KillReturnsRemMinusVictim ==
    Killed =>
        /\ call.selected_tasksize = tasks[call.sigkill].rss
        /\ call.ret = TotalReclaimable - call.selected_tasksize

\* C7 witness: a kill of a task with resident pages out of a sample in
\* which each of the four counters is non-zero.
C7_Witness ==
    /\ Killed
    /\ tasks[call.sigkill].rss > 0
    /\ call.vm.NR_ACTIVE_ANON > 0 /\ call.vm.NR_INACTIVE_ANON > 0
    /\ call.vm.NR_ACTIVE_FILE > 0 /\ call.vm.NR_INACTIVE_FILE > 0
    /\ call.ret = TotalReclaimable - tasks[call.sigkill].rss

\* C8 as stated: a call returns -1 only when its sample crossed a
\* threshold, it scanned to the end and found no eligible task; a call that
\* killed, found no threshold crossed, or met a pending death does not.
C8_MinusOneMeansPressureAndNoVictim ==
    (returned /\ call.ret = -1) =>
        /\ call.nr_to_scan > 0
        /\ CrossedEntries # {}
        /\ ~MetPendingDeath
        /\ \A p \in Pids : ~Eligible(p)
        /\ call.sigkill = NULL

\* C9: no call selects or kills a task flagged as kernel thread, and no
\* call flags a kernel thread TIF_MEMDIE.
C9_KernelThreadNeverKilled ==
    /\ Killed => ~tasks[call.sigkill].kthread
    /\ \A p \in Pids :
          tasks[p].kthread =>
              /\ killed_at[p] = -1
              /\ (returned /\ tasks[p].memdie) => p \in call.memdie0

\* C9 witness: a kill on a list that holds a kernel thread with resident
\* pages whose score is at least the victim's.
C9_Witness ==
    /\ Killed
    /\ \E k \in Pids :
        /\ tasks[k].kthread
        /\ tasks[k].mm
        /\ tasks[k].rss > 0
        /\ tasks[k].oom_score_adj >= tasks[call.sigkill].oom_score_adj
        /\ tasks[k].oom_score_adj >= call.min_score_adj

\* The lowest index of the effective table whose minfree exceeds
\* free + cache.
FirstCrossed == CHOOSE i \in CrossedEntries : \A j \in CrossedEntries : i <= j

\* C10: on a table ascending in both fields, the threshold step yields the
\* score of the lowest-index entry whose minfree is strictly greater than
\* free + cache, and no score (the value OOM_SCORE_ADJ_MAX + 1, above every
\* task's score) when free + cache is at or above every minfree.
C10_FirstCrossedEntryDecides ==
    (returned /\ AscendingTable) =>
        IF CrossedEntries = {}
        THEN call.min_score_adj = OOM_SCORE_ADJ_MAX + 1
        ELSE call.min_score_adj = lowmem_adj[FirstCrossed]

\* C10 witness: free + cache equals the minfree of entry 0 and lies below
\* that of entry 1, and the step yields the score of entry 1.
C10_Witness ==
    /\ returned
    /\ AscendingTable
    /\ EffectiveArraySize >= 2
    /\ FreePlusCache = lowmem_minfree[0]
    /\ FreePlusCache < lowmem_minfree[1]
    /\ lowmem_adj[0] # lowmem_adj[1]
    /\ call.min_score_adj = lowmem_adj[1]

\* Task v was sent SIGKILL by an earlier call at a tick T with
\* T <= now <= T + HZ.
KilledAtMostGraceAgo(v) ==
    /\ call.killed_at0[v] # -1
    /\ USub(call.now, call.killed_at0[v]) \in 0 .. HZ

\* C11 as stated: with one invocation at a time, no kill is issued at a
\* tick t <= T + HZ after a kill issued at tick T, whatever has become of
\* the first victim.
C11_NoSecondKillWithinGrace ==
    Killed => \A v \in Pids : ~KilledAtMostGraceAgo(v)

\* C11, amended: with one invocation at a time, a kill is issued at a tick
\* t <= T + HZ after a kill issued at tick T only when the first victim no
\* longer owns an address space; while it is listed, flagged and owns one,
\* no further kill is issued up to T + HZ.
C11_SecondKillOnlyAfterVictimLostMm ==
    Killed => \A v \in Pids : KilledAtMostGraceAgo(v) => ~tasks[v].mm

\* C11 witness: a kill of one task within the grace period of the kill of
\* another, whose victim has given up its mm.
C11_Witness ==
    /\ Killed
    /\ \E v \in Pids :
        /\ v # call.sigkill
        /\ KilledAtMostGraceAgo(v)
        /\ v \in call.memdie0
        /\ ~tasks[v].mm

\* C12 as stated: a call with nr_to_scan <= 0 whose sample crosses a
\* threshold returns the sum of the four LRU counters, whatever the task
\* list and the timeout are.
C12_QueryReturnsTotalReclaimable ==
    (returned /\ call.nr_to_scan <= 0 /\ CrossedEntries # {}) =>
        call.ret = TotalReclaimable

\* Nothing was written by the call: no SIGKILL, no compaction, the timeout
\* and every TIF_MEMDIE flag as before.
NothingWritten ==
    /\ call.sigkill = NULL
    /\ ~call.compact
    /\ lowmem_deathpending_timeout = call.timeout0
    /\ {p \in Pids : tasks[p].memdie} = call.memdie0

\* C14 as stated: a scanning call whose task list holds a user task flagged
\* TIF_MEMDIE while jiffies has not passed the timeout returns 0 and writes
\* nothing, whatever that task's score, size and place in the list.
C14_AbortOnAnyFlaggedUserTask ==
    (/\ returned
     /\ call.nr_to_scan > 0
     /\ AsLong(USub(call.timeout0, call.now)) >= 0
     /\ \E p \in Pids : ~tasks[p].kthread /\ p \in call.memdie0) =>
        (call.ret = 0 /\ NothingWritten)

\* C14, amended: a scanning call whose task list holds a user task that
\* owns an address space and is flagged TIF_MEMDIE while jiffies has not
\* passed the timeout returns 0 and writes nothing, whatever that task's
\* score, size and place in the list and whatever was selected before it.
C14_AbortAbandonsDecision ==
    (returned /\ call.nr_to_scan > 0 /\ MetPendingDeath) =>
        (call.ret = 0 /\ NothingWritten)

\* C14 witness: the flagged task is last in the list and an eligible,
\* unflagged task precedes it, so a candidate was already selected when
\* the flagged task was met; the call returns 0.
C14_Witness ==
    /\ returned
    /\ call.nr_to_scan > 0
    /\ call.min_score_adj # OOM_ADJUST_MAX + 1
    /\ AsLong(USub(call.timeout0, call.now)) >= 0
    /\ call.ret = 0
    /\ \E p, q \in Pids :
        /\ q < p
        /\ Eligible(q)
        /\ q \notin call.memdie0
        /\ p \in call.memdie0
        /\ ~tasks[p].kthread
        /\ tasks[p].mm

\* The step is a call of lowmem_shrink that sent SIGKILL.
KillingCall ==
    /\ ~returned
    /\ returned'
    /\ call'.sigkill # NULL

\* C15: lowmem_deathpending_timeout changes only in a call that sends
\* SIGKILL, and every such call leaves it at the jiffies of the call plus
\* HZ (in the unsigned word); no other step writes or clears it.
C15_OnlyKillArmsDeadline ==
    [][/\ (lowmem_deathpending_timeout' # lowmem_deathpending_timeout
              => KillingCall)
       /\ (KillingCall =>
              lowmem_deathpending_timeout' = (call'.now + HZ) % JiffiesMod)]_vars

\* C15 witness: a killing call has replaced an earlier timeout by its own
\* jiffies plus HZ.
C15_Witness ==
    /\ Killed
    /\ call.timeout0 # 0
    /\ lowmem_deathpending_timeout # call.timeout0
    /\ lowmem_deathpending_timeout = (call.now + HZ) % JiffiesMod

\* The indices below each of LOWMEM_ARRAY_SIZE, lowmem_adj_size and
\* lowmem_minfree_size.
ConsultedEntries ==
    {i \in 0 .. LOWMEM_ARRAY_SIZE - 1 :
        i < lowmem_adj_size /\ i < lowmem_minfree_size}

\* C16: only the entries with an index below the least of lowmem_adj_size,
\* lowmem_minfree_size and 6 take part in the threshold step: its result is
\* the score of one of them whose minfree exceeds free + cache, and the
\* initial value when none of them does, whatever the entries after them
\* hold.
C16_OnlyEffectiveEntriesConsulted ==
    returned =>
        IF \E i \in ConsultedEntries : FreePlusCache < lowmem_minfree[i]
        THEN \E i \in ConsultedEntries :
                /\ FreePlusCache < lowmem_minfree[i]
                /\ call.min_score_adj = lowmem_adj[i]
        ELSE call.min_score_adj = OOM_SCORE_ADJ_MAX + 1

\* C16 witness: the adj table is the shorter one, an entry of the minfree
\* table after its end exceeds free + cache, and the step has kept the
\* initial value.
C16_Witness ==
    /\ returned
    /\ lowmem_adj_size < lowmem_minfree_size
    /\ \E i \in lowmem_adj_size .. lowmem_minfree_size - 1 :
            FreePlusCache < lowmem_minfree[i]
    /\ call.min_score_adj = OOM_SCORE_ADJ_MAX + 1

\* free + cache of a sample.
Pressure(vm) == vm.NR_FREE_PAGES + vm.NR_INACTIVE_FILE + vm.NR_ACTIVE_FILE

\* C20: on a table ascending in both fields, for the sample of the call and
\* any sample with at least as much free + cache: if the threshold step
\* yields a score for the second sample it yields one for the call's, and
\* one that is not greater; and the score the call got is the least score
\* among the entries whose minfree exceeds its free + cache.
C20_MinScoreMonotoneInPressure ==
    (returned /\ AscendingTable) =>
        /\ \A vm2 \in VmSamples :
              (/\ Pressure(call.vm) <= Pressure(vm2)
               /\ MinScoreAdj(vm2) # OOM_SCORE_ADJ_MAX + 1) =>
                  /\ call.min_score_adj # OOM_SCORE_ADJ_MAX + 1
                  /\ call.min_score_adj <= MinScoreAdj(vm2)
        /\ CrossedEntries # {} =>
              /\ \E i \in CrossedEntries : call.min_score_adj = lowmem_adj[i]
              /\ \A i \in CrossedEntries : call.min_score_adj <= lowmem_adj[i]

\* C20 witness: the call saw less free + cache than another sample that
\* also yields a score, several entries exceed the call's free + cache,
\* and the call got the smaller score.
C20_Witness ==
    /\ returned
    /\ AscendingTable
    /\ \E i, j \in CrossedEntries : lowmem_adj[i] # lowmem_adj[j]
    /\ \E vm2 \in VmSamples :
          /\ Pressure(call.vm) < Pressure(vm2)
          /\ MinScoreAdj(vm2) # OOM_SCORE_ADJ_MAX + 1
          /\ call.min_score_adj < MinScoreAdj(vm2)

\* The call reached the task scan: it took neither the early return of
\* line 110 nor the query return of line 123.
ScanningCall ==
    /\ returned
    /\ call.nr_to_scan > 0
    /\ ~NoThresholdReturn(call.min_score_adj)

\* C17: a call that reaches the scan while jiffies has not passed the
\* timeout and every task flagged TIF_MEMDIE is a kernel thread is not
\* aborted by them: it either sends SIGKILL and returns rem less the size
\* of the victim, or finds no victim and returns -1.
C17_FlaggedKernelThreadNeverAborts ==
    (/\ ScanningCall
     /\ AsLong(USub(call.timeout0, call.now)) >= 0
     /\ call.memdie0 # {}
     /\ \A p \in call.memdie0 : tasks[p].kthread) =>
        \/ /\ call.sigkill # NULL
           /\ call.ret = TotalReclaimable - call.selected_tasksize
        \/ /\ call.sigkill = NULL
           /\ call.ret = -1

\* C17 witness: with a flagged kernel thread first in the list and the
\* timeout not passed, the call has killed the user task after it.
C17_Witness ==
    /\ ScanningCall
    /\ AsLong(USub(call.timeout0, call.now)) >= 0
    /\ \E p, q \in Pids :
          /\ p < q
          /\ call.memdie0 = {p}
          /\ tasks[p].kthread
          /\ tasks[p].mm
          /\ call.sigkill = q

-----------------------------------------------------------------------------
(* A long quiet spell: the same calls on a task list of user tasks that    *)
(* never exit, with jiffies running for almost a whole turn of its word.   *)

\* The sample a call takes under pressure.
PressureSamples == {vm \in VmSamples : MinScoreAdj(vm) = 0}

\* jiffies may advance until one tick short of a full turn of its word, so
\* that the distance between two of its values is the time that passed.
WrapHorizon == JiffiesMod - 1

\* A timer tick within the long horizon.
TickLong ==
    /\ TicksSinceInit < WrapHorizon
    /\ jiffies' = (jiffies + 1) % JiffiesMod
    /\ Forget
    /\ UNCHANGED <<lowmem_adj, lowmem_adj_size, lowmem_minfree,
                   lowmem_minfree_size, lowmem_deathpending_timeout,
                   tasks, killed_at>>

InitWrap ==
    /\ Init
    /\ \A p \in Pids : ~tasks[p].kthread /\ tasks[p].rss > 0

NextWrap ==
    \/ \E vm \in PressureSamples : lowmem_shrink(1, vm)
    \/ Return
    \/ TickLong

SpecWrap == InitWrap /\ [][NextWrap]_vars

\* The latest SIGKILL before the call was sent more than HZ ticks before
\* it, and a task killed then is still listed, flagged and holding its mm.
StaleVictimListed ==
    /\ \E v \in Pids :
          /\ call.killed_at0[v] # -1
          /\ v \in call.memdie0
          /\ tasks[v].mm
    /\ \A v \in Pids :
          call.killed_at0[v] # -1 => USub(call.now, call.killed_at0[v]) > HZ

\* C19: a call that reaches the scan under pressure more than HZ ticks
\* after the latest SIGKILL, with the victim still listed and flagged, is
\* not aborted: it sends SIGKILL (to the flagged task too, if that is the
\* one selected) or returns -1.
C19_CooldownExpiresByTime ==
    (ScanningCall /\ CrossedEntries # {} /\ StaleVictimListed) =>
        (call.sigkill # NULL \/ call.ret = -1)

-----------------------------------------------------------------------------
(* lowmem_shrink step by step, for invocations that run at the same time:  *)
(* the function takes no lock of its own, and the shrinker framework may   *)
(* call it from several CPUs.                                              *)

\* Values of nr_to_scan and of the counters for these invocations.
ConcRequests == {0, 1}
ConcSamples == {vm \in VmSamples : vm.NR_ACTIVE_FILE = 32 /\ vm.NR_FREE_PAGES # 3000}

\* A task that has given up its mm, as TaskExit leaves it.
ExitedTask == [UserTask(12, 0) EXCEPT !.mm = FALSE]

\* The task lists these invocations scan.
ConcTaskKinds ==
    {UserTask(12, 500), UserTask(1, 500), KernelThread(12, 500), ExitedTask}

InitConc ==
    /\ Init
    /\ tasks \in [Pids -> ConcTaskKinds]

\* The invocation is between rcu_read_lock and its return.
UnderWay(t) == thr[t].pc \in {"scan", "locked", "arm", "signal"}

\* Another invocation writes the timeout or a flag: the ones under way
\* have overlapped with it.
Overlap(t) ==
    [u \in Threads |->
        IF u # t /\ UnderWay(u) THEN [thr[u] EXCEPT !.overlapped = TRUE]
        ELSE thr[u]]

\* Lines 71-132: the threshold step, the two early returns and
\* rcu_read_lock.
Enter(t, nr_to_scan, vm) ==
    LET min_score_adj == MinScoreAdj(vm)
        rem == Rem(vm)
    IN  /\ thr[t].pc = "idle"
        /\ thr' = [thr EXCEPT ![t] =
              IF NoThresholdReturn(min_score_adj)
              THEN [@ EXCEPT !.pc = "done", !.ret = 0]
              ELSE IF QueryOnly(nr_to_scan)
              THEN [@ EXCEPT !.pc = "done", !.ret = rem]
              ELSE [@ EXCEPT !.pc = "scan", !.rcu = TRUE, !.i = 1,
                             !.min_score_adj = min_score_adj, !.rem = rem,
                             !.st = ScanStart(min_score_adj)]]
        /\ UNCHANGED <<lowmem_adj, lowmem_adj_size, lowmem_minfree,
                       lowmem_minfree_size, lowmem_deathpending_timeout,
                       jiffies, tasks, killed_at, returned, call, task_lock>>

\* Lines 133-142: the next task of the list.  A kernel thread is passed
\* over; find_lock_task_mm takes the task's lock, and gives it back at once
\* when the task has no mm.
LockTask(t) ==
    LET i == thr[t].i
    IN  /\ thr[t].pc = "scan"
        /\ i <= NTasks
        /\ IF SkipKthread(tasks[i])
           THEN /\ thr' = [thr EXCEPT ![t].i = i + 1]
                /\ UNCHANGED task_lock
           ELSE /\ task_lock[i] = NULL
                /\ IF find_lock_task_mm(i) = NULL
                   THEN /\ thr' = [thr EXCEPT ![t].i = i + 1]
                        /\ UNCHANGED task_lock
                   ELSE /\ thr' = [thr EXCEPT ![t].pc = "locked", ![t].p = i]
                        /\ task_lock' = [task_lock EXCEPT ![i] = t]
        /\ UNCHANGED <<lowmem_adj, lowmem_adj_size, lowmem_minfree,
                       lowmem_minfree_size, lowmem_deathpending_timeout,
                       jiffies, tasks, killed_at, returned, call>>

\* The way an iteration leaves the locked part of the loop body.
BodyPath(st, p, min_score_adj) ==
    IF st.aborted THEN "abort"
    ELSE IF tasks[p].oom_score_adj < min_score_adj THEN "lowscore"
    ELSE "sized"

\* A plausible slip: no task_unlock before the continue of the score test.
UnlockedExceptOnLowScore(path) == path \in {"abort", "sized"}

\* task_unlock(p) is called on each of the three ways: lines 146, 152, 156.
Unlocked(path) == path \in {"abort", "lowscore", "sized"}

\* Lines 144-170 on the locked task: the abort with its two unlocks and
\* return, or the tests and the selection.
Examine(t) ==
    LET p == thr[t].p
        st == ScanBody(thr[t].st, p, thr[t].min_score_adj, jiffies)
        path == BodyPath(st, p, thr[t].min_score_adj)
    IN  /\ thr[t].pc = "locked"
        /\ task_lock' = IF Unlocked(path) THEN [task_lock EXCEPT ![p] = NULL]
                        ELSE task_lock
        /\ thr' = [thr EXCEPT ![t] =
              IF st.aborted
              THEN [@ EXCEPT !.pc = "done", !.ret = 0, !.rcu = FALSE,
                             !.st = st, !.p = NULL]
              ELSE [@ EXCEPT !.pc = "scan", !.i = @ + 1, !.st = st, !.p = NULL]]
        /\ UNCHANGED <<lowmem_adj, lowmem_adj_size, lowmem_minfree,
                       lowmem_minfree_size, lowmem_deathpending_timeout,
                       jiffies, tasks, killed_at, returned, call>>

\* Line 172 after the last task, and lines 182-190 when nothing is selected.
EndScan(t) ==
    /\ thr[t].pc = "scan"
    /\ thr[t].i > NTasks
    /\ thr' = [thr EXCEPT ![t] =
          IF thr[t].st.selected # NULL
          THEN [@ EXCEPT !.pc = "arm"]
          ELSE [@ EXCEPT !.pc = "done", !.rem = -1, !.ret = -1, !.rcu = FALSE]]
    /\ UNCHANGED <<lowmem_adj, lowmem_adj_size, lowmem_minfree,
                   lowmem_minfree_size, lowmem_deathpending_timeout,
                   jiffies, tasks, killed_at, returned, call, task_lock>>

\* Line 176.
ArmTimeout(t) ==
    /\ thr[t].pc = "arm"
    /\ lowmem_deathpending_timeout' = ArmDeadline(jiffies)
    /\ thr' = [Overlap(t) EXCEPT ![t].pc = "signal"]
    /\ UNCHANGED <<lowmem_adj, lowmem_adj_size, lowmem_minfree,
                   lowmem_minfree_size, jiffies, tasks, killed_at,
                   returned, call, task_lock>>

\* Lines 177-190: SIGKILL, TIF_MEMDIE, rem, rcu_read_unlock and the return.
SendSigkill(t) ==
    LET selected == thr[t].st.selected
        rem == thr[t].rem - thr[t].st.selected_tasksize
    IN  /\ thr[t].pc = "signal"
        /\ tasks' = [tasks EXCEPT ![selected].memdie = TRUE]
        /\ killed_at' = [killed_at EXCEPT ![selected] = jiffies]
        /\ thr' = [Overlap(t) EXCEPT ![t] =
              [@ EXCEPT !.pc = "done", !.rem = rem, !.ret = rem, !.rcu = FALSE,
                        !.sigkill = selected, !.sigkill_at = jiffies]]
        /\ UNCHANGED <<lowmem_adj, lowmem_adj_size, lowmem_minfree,
                       lowmem_minfree_size, lowmem_deathpending_timeout,
                       jiffies, returned, call, task_lock>>

\* The caller takes the return value; the CPU may call again.
ThreadReturn(t) ==
    /\ thr[t].pc = "done"
    /\ thr' = [thr EXCEPT ![t] = ThreadIdle]
    /\ UNCHANGED <<lowmem_adj, lowmem_adj_size, lowmem_minfree,
                   lowmem_minfree_size, lowmem_deathpending_timeout,
                   jiffies, tasks, killed_at, returned, call, task_lock>>

NextConc ==
    \/ \E t \in Threads, nr_to_scan \in ConcRequests, vm \in ConcSamples :
          Enter(t, nr_to_scan, vm)
    \/ \E t \in Threads : LockTask(t)
    \/ \E t \in Threads : Examine(t)
    \/ \E t \in Threads : EndScan(t)
    \/ \E t \in Threads : ArmTimeout(t)
    \/ \E t \in Threads : SendSigkill(t)
    \/ \E t \in Threads : ThreadReturn(t)
    \/ Tick

SpecConc == InitConc /\ [][NextConc]_vars

\* A user task holding its mm is flagged TIF_MEMDIE and jiffies has not
\* passed the timeout.
CooldownActive ==
    \E v \in Pids :
        /\ ~tasks[v].kthread
        /\ tasks[v].mm
        /\ tasks[v].memdie
        /\ time_before_eq(jiffies, lowmem_deathpending_timeout)

\* C13: the test of the timeout (lines 144-145) and its arming (line 176)
\* are apart: an invocation goes on to kill while a flagged task's grace
\* is running only if another invocation wrote the timeout or the flag
\* after this one had entered its scan; invocations that do not overlap
\* never do.
C13_KillDuringCooldownOnlyWhenOverlapped ==
    \A t \in Threads :
        (thr[t].pc = "arm" /\ CooldownActive) => thr[t].overlapped

\* C13 witness: two invocations have both passed the scan without meeting
\* a pending death and both have sent SIGKILL, no more than HZ ticks apart,
\* the first victim still flagged and holding its mm.
C13_Witness ==
    \E t, u \in Threads :
        /\ t # u
        /\ thr[t].pc = "done" /\ thr[u].pc = "done"
        /\ thr[t].sigkill # NULL /\ thr[u].sigkill # NULL
        /\ ~thr[t].st.aborted /\ ~thr[u].st.aborted
        /\ thr[u].overlapped
        /\ USub(thr[u].sigkill_at, thr[t].sigkill_at) \in 0 .. HZ
        /\ tasks[thr[t].sigkill].mm /\ tasks[thr[t].sigkill].memdie

\* The tasks whose lock invocation t holds.
LocksHeld(t) == {p \in Pids : task_lock[p] = t}

\* C18: an invocation holds at most one task lock, and only between taking
\* it for a task and the end of that task's iteration; it holds no task
\* lock and is outside the rcu read section once it has returned, by the
\* abort return and after the score skip too; and an invocation that waits
\* for a task's lock waits for one that holds nothing else to wait for,
\* so no two invocations wait for each other.
C18_LocksBalanced ==
    \A t \in Threads :
        /\ Cardinality(LocksHeld(t)) <= 1
        /\ LocksHeld(t) = IF thr[t].pc = "locked" THEN {thr[t].p} ELSE {}
        /\ thr[t].pc \in {"idle", "done"} => ~thr[t].rcu
        /\ UnderWay(t) => thr[t].rcu
        /\ (/\ thr[t].pc = "scan"
            /\ thr[t].i <= NTasks
            /\ task_lock[thr[t].i] # NULL) =>
               LET u == task_lock[thr[t].i]
               IN  u # t /\ thr[u].pc = "locked" /\ ENABLED Examine(u)

\* C18 witness: one invocation has returned through the abort, holding
\* nothing, after it skipped a task by score, while the other holds the
\* lock of a task.
C18_Witness ==
    \E t, u \in Threads :
        /\ t # u
        /\ thr[t].pc = "done"
        /\ thr[t].st.aborted
        /\ LocksHeld(t) = {}
        /\ ~thr[t].rcu
        /\ \E q \in Pids :
              /\ q < thr[t].i
              /\ ~tasks[q].kthread
              /\ tasks[q].mm
              /\ tasks[q].oom_score_adj < thr[t].min_score_adj
              /\ ~tasks[q].memdie
        /\ thr[u].pc = "locked"
        /\ LocksHeld(u) # {}

=============================================================================
